---- MODULE Spec2Model ----
(***************************************************************************)
(* Model of imgreliability/tetrachoric_correlation.py: tetrachoric_corr.   *)
(*                                                                         *)
(* One call of the function is followed from its entry to its return or    *)
(* to the AssertionError it raises.  The two input vectors are drawn in    *)
(* Init; Validate is the three assert statements, Count the four           *)
(* contingency sums and Compute the return expression.                     *)
(*                                                                         *)
(* numpy float64 values are modelled as records: a not-a-number, a         *)
(* positive infinity, or a finite value held as an integer scaled by       *)
(* SCALE (fixed point).  Division, square root, addition and cosine        *)
(* follow the IEEE-754 rules numpy applies to the special values (numpy    *)
(* warns on them, it does not raise).                                      *)
(***************************************************************************)
EXTENDS Integers, Sequences, FiniteSets

VARIABLES img1, img2, pc, counts, result, error

vars == <<img1, img2, pc, counts, result, error>>

\* Longest input vector drawn.
MaxLen == 5

\* Fixed-point resolution of the finite float values (units per 1.0).
SCALE == 10000

Bit == {0, 1}

Vectors == UNION {[1..n -> Bit] : n \in 0..MaxLen}

----------------------------------------------------------------------------
\* float64 values

NaN == [k |-> "nan", v |-> 0]

Inf == [k |-> "inf", v |-> 0]

Fin(x) == [k |-> "fin", v |-> x]

NoResult == [k |-> "none", v |-> 0]

\* an integer count promoted to float64
FromInt(n) == Fin(n * SCALE)

\* numpy.pi
PI == Fin((31416 * SCALE) \div 10000)

\* x / y with x >= 0, y >= 0 (true division of numpy scalars)
FDivZeroInf(x, y) ==
    IF x.k = "nan" \/ y.k = "nan" THEN NaN
    ELSE IF x.k = "inf" THEN (IF y.k = "inf" THEN NaN ELSE Inf)
    ELSE IF y.k = "inf" THEN Fin(0)
    ELSE IF y.v = 0 THEN Inf
    ELSE Fin((x.v * SCALE) \div y.v)

FDiv(x, y) ==
    IF x.k = "nan" \/ y.k = "nan" THEN NaN
    ELSE IF x.k = "inf" THEN (IF y.k = "inf" THEN NaN ELSE Inf)
    ELSE IF y.k = "inf" THEN Fin(0)
    ELSE IF y.v = 0 THEN (IF x.v = 0 THEN NaN ELSE Inf)
    ELSE Fin((x.v * SCALE) \div y.v)

\* x + y with x, y >= 0
FAdd(x, y) ==
    IF x.k = "nan" \/ y.k = "nan" THEN NaN
    ELSE IF x.k = "inf" \/ y.k = "inf" THEN Inf
    ELSE Fin(x.v + y.v)

\* largest r in lo..hi with r*r <= n, for s = <<n, lo, hi>> (bisection)
ISqrt[s \in Nat \X Nat \X Nat] ==
    IF s[2] >= s[3] THEN s[2]
    ELSE LET mid == (s[2] + s[3] + 1) \div 2
         IN  IF mid * mid <= s[1] THEN ISqrt[<<s[1], mid, s[3]>>]
             ELSE ISqrt[<<s[1], s[2], mid - 1>>]

\* numpy.sqrt
FSqrt(x) ==
    IF x.k = "nan" THEN NaN
    ELSE IF x.k = "inf" THEN Inf
    ELSE IF x.v < 0 THEN NaN
    ELSE Fin(ISqrt[<<x.v * SCALE, 0, 46340>>])

\* cosine series on [0, pi/2], Horner form, argument and value scaled
CosSeries(x) ==
    LET x2 == (x * x) \div SCALE
        h5 == SCALE - (x2 \div 90)
        h4 == SCALE - (((x2 * h5) \div SCALE) \div 56)
        h3 == SCALE - (((x2 * h4) \div SCALE) \div 30)
        h2 == SCALE - (((x2 * h3) \div SCALE) \div 12)
    IN  SCALE - (((x2 * h2) \div SCALE) \div 2)

\* cosine of a scaled argument x >= 0, reduced to [0, pi/2]
CosFx(x) ==
    LET p  == PI.v
        m  == x % (2 * p)
        r  == IF m > p THEN 2 * p - m ELSE m
    IN  IF r > p \div 2 THEN 0 - CosSeries(p - r) ELSE CosSeries(r)

\* numpy.cos
FCos(x) ==
    IF x.k = "nan" THEN NaN
    ELSE IF x.k = "inf" THEN NaN
    ELSE Fin(CosFx(x.v))

----------------------------------------------------------------------------
\* the assert statements

NoError == [assertion |-> 0, arrays |-> <<>>, lengths |-> <<>>]

\* which assert statement fails first (0: none)
FailedAssertOnlyLen(i1, i2) ==
    IF ~(Len(i1) = Len(i2)) THEN 3
    ELSE 0

FailedAssertMin2(i1, i2) ==
    IF ~(Len(i1) > 1) THEN 1
    ELSE IF ~(Len(i2) > 0) THEN 2
    ELSE IF ~(Len(i1) = Len(i2)) THEN 3
    ELSE 0

FailedAssert(i1, i2) ==
    IF ~(Len(i1) > 0) THEN 1
    ELSE IF ~(Len(i2) > 0) THEN 2
    ELSE IF ~(Len(i1) = Len(i2)) THEN 3
    ELSE 0

\* the message of assert statement a: the arrays and the lengths it formats
AssertMessageLen1Twice(a, i1, i2) ==
    IF a = 3 THEN [assertion |-> 3, arrays |-> <<>>, lengths |-> <<Len(i1), Len(i1)>>]
    ELSE [assertion |-> a, arrays |-> <<i1>>, lengths |-> <<>>]

AssertMessage(a, i1, i2) ==
    IF a = 3 THEN [assertion |-> 3, arrays |-> <<>>, lengths |-> <<Len(i1), Len(i2)>>]
    ELSE [assertion |-> a, arrays |-> <<i1>>, lengths |-> <<>>]

----------------------------------------------------------------------------
\* the contingency sums

\* sum(logical_and(img1 == a, img2 == b))
CountPairs(i1, i2, a, b) ==
    Cardinality({i \in 1..Len(i1) : i1[i] = a /\ i2[i] = b})

CountA(i1, i2) == CountPairs(i1, i2, 0, 0)

CountB(i1, i2) == CountPairs(i1, i2, 0, 1)

CountC(i1, i2) == CountPairs(i1, i2, 1, 0)

CountDFirstOnly(i1, i2) == Cardinality({i \in 1..Len(i1) : i1[i] = 1})

CountD(i1, i2) == CountPairs(i1, i2, 1, 1)

\* AD = A*D
ProdADSum(a, d) == a + d

ProdAD(a, d) == a * d

\* cos(pi/(1+sqrt(AD/B/C)))
FormulaNoOne(ad, b, c) ==
    FCos(FDiv(PI, FSqrt(FDiv(FDiv(FromInt(ad), FromInt(b)), FromInt(c)))))

FormulaNoCos(ad, b, c) ==
    FDiv(PI, FAdd(FromInt(1), FSqrt(FDiv(FDiv(FromInt(ad), FromInt(b)), FromInt(c)))))

Formula(ad, b, c) ==
    FCos(FDiv(PI, FAdd(FromInt(1), FSqrt(FDiv(FDiv(FromInt(ad), FromInt(b)), FromInt(c))))))

----------------------------------------------------------------------------
\* the call

Init ==
    /\ img1 \in Vectors
    /\ img2 \in Vectors
    /\ pc = "entry"
    /\ counts = <<>>
    /\ result = NoResult
    /\ error = NoError

Validate ==
    /\ pc = "entry"
    /\ LET a == FailedAssert(img1, img2)
       IN  IF a = 0
           THEN /\ pc' = "count"
                /\ error' = error
           ELSE /\ pc' = "raised"
                /\ error' = AssertMessage(a, img1, img2)
    /\ UNCHANGED <<img1, img2, counts, result>>

Count ==
    /\ pc = "count"
    /\ counts' = <<CountA(img1, img2), CountB(img1, img2),
                   CountC(img1, img2), CountD(img1, img2)>>
    /\ pc' = "compute"
    /\ UNCHANGED <<img1, img2, result, error>>

Compute ==
    /\ pc = "compute"
    /\ result' = Formula(ProdAD(counts[1], counts[4]), counts[2], counts[3])
    /\ pc' = "returned"
    /\ UNCHANGED <<img1, img2, counts, error>>

Next == Validate \/ Count \/ Compute

Spec == Init /\ [][Next]_vars

\* the interpreter runs a call that was entered to its return or its raise
FairSpec == Spec /\ WF_vars(Next)

----------------------------------------------------------------------------
\* the inputs as the properties describe them

\* the two preconditions on the lengths
ValidInput == Len(img1) > 0 /\ Len(img2) > 0 /\ Len(img1) = Len(img2)

\* the number of positions holding the pair (a, b), for inputs of equal length
Pairs(a, b) == Cardinality({i \in DOMAIN img1 : img1[i] = a /\ img2[i] = b})

nA == Pairs(0, 0)

nB == Pairs(0, 1)

nC == Pairs(1, 0)

nD == Pairs(1, 1)

Complementary == \A i \in DOMAIN img1 : img1[i] = 1 - img2[i]

Returned == pc = "returned" /\ ValidInput

One == Fin(SCALE)

MinusOne == Fin(0 - SCALE)

\* what "0.0 up to floating-point tolerance" is at the model's resolution
Tol == SCALE \div 1000

----------------------------------------------------------------------------
\* C1: identical non-empty binary vectors give exactly 1.0, the constant
\* all-zeros and all-ones vectors included.  (Stated as claimed; the code
\* returns not-a-number for the constant vectors.)
C1_IdenticalGivesOne ==
    (Returned /\ img1 = img2) => result = One

\* C2: vectors that are not identical and have B = 0 or C = 0 give the
\* not-a-number marker.  (Stated as claimed; the code returns 1.0 when
\* A*D > 0.)
C2_ZeroDiscordantGivesNaN ==
    (Returned /\ img1 # img2 /\ (nB = 0 \/ nC = 0)) => result = NaN

\* C3 as claimed: every complementary pair gives exactly -1.0, all zeros
\* against all ones included.
C3_ComplementGivesMinusOne ==
    (Returned /\ Complementary) => result = MinusOne

\* C3 amended: a complementary pair gives exactly -1.0 when the first
\* vector is not constant (B > 0 and C > 0), and the not-a-number marker
\* when it is constant (all zeros against all ones, or the reverse).
C3_ComplementAmended ==
    (Returned /\ Complementary) =>
        IF nB > 0 /\ nC > 0 THEN result = MinusOne ELSE result = NaN

C3_Witness ==
    Returned /\ Complementary /\ nB > 0 /\ nC > 0 /\ result = MinusOne

\* C4: with B > 0 and C > 0 the result is a real number in [-1, 1], never
\* the not-a-number marker.
C4_NonDegenerateInRange ==
    (Returned /\ nB > 0 /\ nC > 0) =>
        (result.k = "fin" /\ 0 - SCALE <= result.v /\ result.v <= SCALE)

C4_Witness ==
    Returned /\ nB > 0 /\ nC > 0 /\ nA * nD > nB * nC
        /\ result.k = "fin" /\ 0 < result.v /\ result.v < SCALE

\* C5: an empty vector or a length mismatch makes the call fail with the
\* precondition error before any contingency count is computed, and no
\* value is returned.
C5_InvalidRaisesEarly ==
    (~ValidInput /\ pc # "entry") =>
        (pc = "raised" /\ error # NoError /\ counts = <<>> /\ result = NoResult)

C5_Witness ==
    ~ValidInput /\ pc = "raised" /\ counts = <<>> /\ result = NoResult

C7_MessageHasLengths ==
    pc = "raised" => error.lengths = <<Len(img1), Len(img2)>>

\* C7 amended: the message contains the lengths of both vectors when the
\* violation is a length mismatch between two non-empty vectors; when a
\* vector is empty the message shows the first vector and no length.
C7_MessageAmended ==
    pc = "raised" =>
        IF Len(img1) > 0 /\ Len(img2) > 0
        THEN error.lengths = <<Len(img1), Len(img2)>>
        ELSE error.lengths = <<>> /\ error.arrays = <<img1>>

C7_Witness ==
    pc = "raised" /\ Len(img1) > 0 /\ Len(img2) > 0
        /\ error.lengths = <<Len(img1), Len(img2)>>

\* C8: with B > 0, C > 0 and A*D = B*C the result is 0 up to tolerance.
C8_UnitRatioGivesZero ==
    (Returned /\ nB > 0 /\ nC > 0 /\ nA * nD = nB * nC) =>
        (result.k = "fin" /\ 0 - Tol <= result.v /\ result.v <= Tol)

C8_Witness ==
    Returned /\ nB > 0 /\ nC > 0 /\ nA * nD = nB * nC
        /\ result.k = "fin" /\ 0 - Tol <= result.v /\ result.v <= Tol

\* C9: with B > 0, C > 0 and A = 0 or D = 0 the result is exactly -1, not
\* the not-a-number marker.
C9_ZeroProductGivesMinusOne ==
    (Returned /\ nB > 0 /\ nC > 0 /\ (nA = 0 \/ nD = 0)) => result = MinusOne

C9_Witness ==
    Returned /\ nB > 0 /\ nC > 0 /\ nA = 0 /\ nD > 0 /\ result = MinusOne

====
